---- MODULE Spec2Model ----
(***************************************************************************)
(* Model of the complete-iter crate: the MDP graph builder (models.rs),    *)
(* the weighted-reduction helper (helper.rs) and the policy-iteration      *)
(* agent (lib.rs).                                                         *)
(*                                                                         *)
(* f64 values are modelled as exact rationals <<numerator, denominator>>.  *)
(* Every input of the model (probabilities, rewards, discounts, uniform    *)
(* policies over at most two actions) is a dyadic rational of small        *)
(* magnitude, for which IEEE-754 double arithmetic is exact, so the        *)
(* rational arithmetic below computes what the f64 code computes.          *)
(***************************************************************************)
EXTENDS Integers, Sequences, FiniteSets, TLC

VARIABLES specification, states, is_built,
          agent, policy, policy_evaluation,
          pc, ev, dpi, prev_policy, hist, result, calls

vars == <<specification, states, is_built, agent, policy, policy_evaluation,
          pc, ev, dpi, prev_policy, hist, result, calls>>

(***************************************************************************)
(* f64 arithmetic on dyadic rationals                                      *)
(***************************************************************************)
RECURSIVE GCD(_, _)
GCD(a, b) == IF b = 0 THEN a ELSE GCD(b, a % b)

AbsInt(n) == IF n < 0 THEN 0 - n ELSE n

Norm(n, d) == LET g == GCD(AbsInt(n), d) IN <<n \div g, d \div g>>

Zero == <<0, 1>>
One == <<1, 1>>
Half == <<1, 2>>
Quarter == <<1, 4>>
Two == <<2, 1>>

Add(x, y) ==
    LET l == (x[2] \div GCD(x[2], y[2])) * y[2]
    IN  Norm(x[1] * (l \div x[2]) + y[1] * (l \div y[2]), l)

Neg(x) == <<0 - x[1], x[2]>>

Sub(x, y) == Add(x, Neg(y))

Mul(x, y) ==
    LET g1 == GCD(AbsInt(x[1]), y[2])
        g2 == GCD(AbsInt(y[1]), x[2])
    IN  <<(x[1] \div g1) * (y[1] \div g2), (x[2] \div g2) * (y[2] \div g1)>>

\* 1. / (n as f64), n >= 1
Recip(n) == <<1, n>>

Abs(x) == <<AbsInt(x[1]), x[2]>>

\* numerators of x and y over their common denominator
Scaled(x, y) ==
    LET l == (x[2] \div GCD(x[2], y[2])) * y[2]
    IN  <<x[1] * (l \div x[2]), y[1] * (l \div y[2])>>

Lt(x, y) == Scaled(x, y)[1] < Scaled(x, y)[2]

Le(x, y) == Scaled(x, y)[1] <= Scaled(x, y)[2]

\* f64::max
Max(x, y) == IF Lt(x, y) THEN y ELSE x

(***************************************************************************)
(* HashMap helpers                                                         *)
(***************************************************************************)
EmptyMap == <<>>

\* HashMap::insert
MapInsert(m, k, v) == [x \in (DOMAIN m) \cup {k} |-> IF x = k THEN v ELSE m[x]]

\* Iterator::sum over the f64 values of a map
RECURSIVE SumOver(_, _)
SumOver(f, S) ==
    IF S = {} THEN Zero
    ELSE LET k == CHOOSE x \in S : TRUE
         IN  Add(f[k], SumOver(f, S \ {k}))

Sum(f) == SumOver(f, DOMAIN f)

(***************************************************************************)
(* helper.rs                                                               *)
(***************************************************************************)
\* map_2.get(key).unwrap_or(&0.)
GetOrZero(m, k) == IF k \in DOMAIN m THEN m[k] ELSE Zero

match_mul(map_1, map_2) ==
    [key \in DOMAIN map_1 |-> Mul(GetOrZero(map_2, key), map_1[key])]

match_mul_sum(map_1, map_2) == Sum(match_mul(map_1, map_2))

(***************************************************************************)
(* models.rs: ModelState                                                   *)
(***************************************************************************)
\* the (prev_state, new_state, action, probability, reward) fields of a StateLink
Link0(link) == link[1]
Link1(link) == link[2]
Link2(link) == link[3]
Link3(link) == link[4]
Link4(link) == link[5]

calc_eval_rewards_NoProb(st) ==
    [st EXCEPT !.eval_action_rewards =
        [action \in DOMAIN st.action_rewards |->
            Sum([id \in DOMAIN st.action_rewards[action] |->
                    st.action_rewards[action][id]])]]

calc_eval_rewards(st) ==
    [st EXCEPT !.eval_action_rewards =
        [action \in DOMAIN st.action_rewards |->
            Sum([id \in DOMAIN st.action_rewards[action] |->
                    Mul(st.transition_probs[action][id],
                        st.action_rewards[action][id])])]]

ModelState_new(id) ==
    calc_eval_rewards(
        [state_id |-> id,
         transition_probs |-> EmptyMap,
         action_rewards |-> EmptyMap,
         state_reward |-> Zero,
         eval_action_rewards |-> EmptyMap,
         eval_transition_probs |-> EmptyMap])

\* map.insert(key, HashMap::from([(inner_key, value)]))
EntryInsert_Replace(map, key, inner_key, value) ==
    MapInsert(map, key, MapInsert(EmptyMap, inner_key, value))

\* map.entry(key).or_insert(HashMap::new()).insert(inner_key, value)
EntryInsert(map, key, inner_key, value) ==
    MapInsert(map, key,
              MapInsert(IF key \in DOMAIN map THEN map[key] ELSE EmptyMap,
                        inner_key, value))

insert_link_KeepFirst(st, new_state, action, prob, reward) ==
    IF action \in DOMAIN st.transition_probs
       /\ new_state \in DOMAIN st.transition_probs[action]
    THEN st
    ELSE [st EXCEPT
            !.transition_probs = EntryInsert(@, action, new_state, prob),
            !.action_rewards = EntryInsert(@, action, new_state, reward)]

insert_link(st, new_state, action, prob, reward) ==
    [st EXCEPT
        !.transition_probs = EntryInsert(@, action, new_state, prob),
        !.action_rewards = EntryInsert(@, action, new_state, reward)]

get_random_policy_One(st) ==
    [action \in DOMAIN st.action_rewards |-> One]

get_random_policy(st) ==
    [action \in DOMAIN st.action_rewards |->
        Recip(Cardinality(DOMAIN st.action_rewards))]

\* first loop of calc_eval_transition: the edges, indexed by destination
TransposeEdges(transition_probs) ==
    LET dests == UNION {DOMAIN transition_probs[action] :
                            action \in DOMAIN transition_probs}
    IN  [id \in dests |->
            [action \in {a \in DOMAIN transition_probs :
                            id \in DOMAIN transition_probs[a]} |->
                transition_probs[action][id]]]

\* second loop of calc_eval_transition: map.entry(action).or_insert(0.)
ZeroFill(new_eval_transition, transition_probs) ==
    [id \in DOMAIN new_eval_transition |->
        [action \in (DOMAIN new_eval_transition[id]) \cup (DOMAIN transition_probs) |->
            IF action \in DOMAIN new_eval_transition[id]
            THEN new_eval_transition[id][action]
            ELSE Zero]]

calc_eval_transition_NoFill(st) ==
    [st EXCEPT !.eval_transition_probs = TransposeEdges(st.transition_probs)]

calc_eval_transition(st) ==
    [st EXCEPT !.eval_transition_probs =
        ZeroFill(TransposeEdges(st.transition_probs), st.transition_probs)]

(***************************************************************************)
(* models.rs: SystemState                                                  *)
(***************************************************************************)
\* self.states.entry(id).or_insert(ModelState::new(id))
EntryState(sts, id) == IF id \in DOMAIN sts THEN sts ELSE MapInsert(sts, id, ModelState_new(id))

\* body of the first loop of build, for one link
IngestLink(sts, link) ==
    LET s1 == EntryState(sts, Link0(link))
        s2 == [s1 EXCEPT ![Link0(link)] =
                   insert_link(@, Link1(link), Link2(link), Link3(link), Link4(link))]
    IN  EntryState(s2, Link1(link))

RECURSIVE IngestAll(_, _, _)
IngestAll(sts, links, i) ==
    IF i > Len(links) THEN sts
    ELSE IngestAll(IngestLink(sts, links[i]), links, i + 1)

\* new value of self.states after build
build(sts, links) ==
    LET ingested == IngestAll(sts, links, 1)
    IN  [id \in DOMAIN ingested |->
            calc_eval_transition(calc_eval_rewards(ingested[id]))]

\* Option<&ModelState>
get_state(sts, id) ==
    IF id \in DOMAIN sts THEN [kind |-> "Some", value |-> sts[id]]
    ELSE [kind |-> "None"]

(***************************************************************************)
(* lib.rs: Agent, pure parts                                               *)
(***************************************************************************)
\* (policy, policy_evaluation) of Agent::init_random
init_random_policy(sts) == [id \in DOMAIN sts |-> get_random_policy(sts[id])]

\* a value table over the states that have an action only
init_random_evaluation_Sources(sts) ==
    [id \in {x \in DOMAIN sts : DOMAIN sts[x].transition_probs # {}} |-> Zero]

init_random_evaluation(sts) == [id \in DOMAIN sts |-> Zero]

\* the entries max_by can return: Rust's max_by returns the last maximal
\* element in iteration order, and a HashMap iterates in arbitrary order
MaxEntries(m) == {k \in DOMAIN m : \A j \in DOMAIN m : Le(m[j], m[k])}

\* a lookup that answers only when one entry is strictly above every other
get_best_action_Strict(pol, state_id) ==
    IF state_id \notin DOMAIN pol THEN {[kind |-> "panic"]}
    ELSE IF \E a \in DOMAIN pol[state_id] :
                \A b \in DOMAIN pol[state_id] \ {a} :
                    Lt(pol[state_id][b], pol[state_id][a])
    THEN {[kind |-> "Some", action |-> a, prob |-> pol[state_id][a]] :
            a \in MaxEntries(pol[state_id])}
    ELSE {[kind |-> "None"]}

\* Option<(&String,&f64)>, or the panic of unwrap() on a missing key
get_best_action(pol, state_id) ==
    IF state_id \notin DOMAIN pol THEN {[kind |-> "panic"]}
    ELSE IF DOMAIN pol[state_id] = {} THEN {[kind |-> "None"]}
    ELSE {[kind |-> "Some", action |-> a, prob |-> pol[state_id][a]] :
            a \in MaxEntries(pol[state_id])}

\* static_rewards of evaluate_policy
StaticRewards(pol, sts) ==
    [id \in DOMAIN pol |-> match_mul_sum(pol[id], sts[id].eval_action_rewards)]

\* state_probs of evaluate_policy
StateProbs(pol, sts) ==
    [id_prev \in DOMAIN pol |->
        [id_next \in DOMAIN sts[id_prev].eval_transition_probs |->
            match_mul_sum(pol[id_prev], sts[id_prev].eval_transition_probs[id_next])]]

\* new_reward of one entry of the sweep
NewReward(id, values, static_rewards, state_probs, gamma) ==
    Add(static_rewards[id], Mul(gamma, match_mul_sum(state_probs[id], values)))

\* a sweep that writes each entry into the table it is reading, in id order
RECURSIVE SweepInPlaceFrom(_, _, _, _, _)
SweepInPlaceFrom(values, todo, static_rewards, state_probs, gamma) ==
    IF todo = {} THEN values
    ELSE LET id == CHOOSE x \in todo : \A y \in todo : y <= x
         IN  SweepInPlaceFrom(
                 [values EXCEPT ![id] =
                     NewReward(id, values, static_rewards, state_probs, gamma)],
                 todo \ {id}, static_rewards, state_probs, gamma)

Sweep_InPlace(values, static_rewards, state_probs, gamma) ==
    SweepInPlaceFrom(values, DOMAIN values, static_rewards, state_probs, gamma)

\* the table collected by one pass of the loop of evaluate_policy
Sweep(values, static_rewards, state_probs, gamma) ==
    [id \in DOMAIN values |->
        NewReward(id, values, static_rewards, state_probs, gamma)]

\* delta after one pass: f64::max folded over |new_reward - value|, from 0.
RECURSIVE MaxAbsDiff(_, _, _)
MaxAbsDiff(new, old, S) ==
    IF S = {} THEN Zero
    ELSE LET id == CHOOSE x \in S : TRUE
         IN  Max(MaxAbsDiff(new, old, S \ {id}), Abs(Sub(new[id], old[id])))

\* a delta that keeps the change of one entry only, not the maximum
Delta_Last(new, old) ==
    IF DOMAIN old = {} THEN Zero
    ELSE LET id == CHOOSE x \in DOMAIN old : \A y \in DOMAIN old : y <= x
         IN  Abs(Sub(new[id], old[id]))

\* a delta that is never raised from its initial 0.
Delta_Zero(new, old) == Zero

Delta(new, old) == MaxAbsDiff(new, old, DOMAIN old)

default_str == "_No_Actions_"

\* action_reward + future_reward of calc_best_action
ActionScore(st, values, action) ==
    Add(st.eval_action_rewards[action],
        match_mul_sum(st.transition_probs[action], values))

\* min_by in place of max_by
calc_best_action_Min(st, values) ==
    IF DOMAIN st.transition_probs = {} THEN {default_str}
    ELSE {a \in DOMAIN st.transition_probs :
            \A b \in DOMAIN st.transition_probs :
                Le(ActionScore(st, values, a), ActionScore(st, values, b))}

\* the actions calc_best_action can return (max_by over a HashMap)
calc_best_action(st, values) ==
    IF DOMAIN st.transition_probs = {} THEN {default_str}
    ELSE {a \in DOMAIN st.transition_probs :
            \A b \in DOMAIN st.transition_probs :
                Le(ActionScore(st, values, b), ActionScore(st, values, a))}

\* a policy that holds the best action only
calc_best_policy_Sparse(st, best_action) ==
    [action \in DOMAIN st.eval_action_rewards \cap {best_action} |-> One]

calc_best_policy(st, best_action) ==
    [action \in DOMAIN st.eval_action_rewards |->
        IF action = best_action THEN One ELSE Zero]

(***************************************************************************)
(* Inputs of the model                                                     *)
(***************************************************************************)
MaxLinks == 2
MaxIters == 2
MaxSweeps == 5
MaxOuter == 3
MaxCalls == 1
MaxDen == 65536

\* the links a specification is drawn from: two arms of state 0, a chain
\* through state 2, a stochastic self-loop, a second spec for the edge
\* (0, "a", 1) and a rewarded cycle
LinkUniverse ==
    { <<0, 1, "a", One, Two>>,
      <<0, 2, "b", One, One>>,
      <<2, 1, "a", One, Two>>,
      <<0, 0, "a", Half, One>>,
      <<0, 1, "a", Half, Zero>>,
      <<0, 0, "b", One, One>> }

LinkSeqs == UNION {[1..n -> LinkUniverse] : n \in 0..MaxLinks}

\* ids a caller asks about; 3 is never an endpoint of a link
QueryIds == {0, 1, 2, 3}

Gammas == {Zero, Half, One}
Epsilons == {Quarter}

\* sweep cap of the re-evaluation inside deterministic_policy_improvement
InnerEvalCap == 100

\* the last value returned to the caller by a query
NoResult == [op |-> "none", id |-> 0, ret |-> [kind |-> "NoCall"]]

NoEval == [gamma |-> Zero, epsilon |-> Zero, n_iter |-> 0, counter |-> 0,
           delta |-> Zero, static_rewards |-> EmptyMap, state_probs |-> EmptyMap,
           ret |-> "idle"]

NoDpi == [gamma |-> Zero, epsilon |-> Zero, policy_iters |-> 0, eval_iters |-> 0,
          policy_counter |-> 0, old_eval |-> EmptyMap]

\* hist is a history variable about the caller's last evaluate_policy call:
\* start is the value table the call began with, again tells that the call
\* repeats, with the same gamma, epsilon and policy, a call that had stopped
\* because its maximum change was below epsilon
NoHist == [start |-> EmptyMap, again |-> FALSE]

(***************************************************************************)
(* State machine                                                           *)
(***************************************************************************)
\* SystemState { states: HashMap::new(), speficication: links, is_built: false }
Init ==
    /\ specification \in LinkSeqs
    /\ states = EmptyMap
    /\ is_built = FALSE
    /\ agent = FALSE
    /\ policy = EmptyMap
    /\ policy_evaluation = EmptyMap
    /\ pc = "system"
    /\ ev = NoEval
    /\ dpi = NoDpi
    /\ prev_policy = EmptyMap
    /\ hist = NoHist
    /\ result = NoResult
    /\ calls = 0

\* SystemState::build
Build ==
    /\ pc = "system"
    /\ states' = build(states, specification)
    /\ is_built' = TRUE
    /\ result' = NoResult
    /\ UNCHANGED <<specification, agent, policy, policy_evaluation, pc, ev, dpi,
                   prev_policy, hist, calls>>

\* SystemState::get_state
GetState(id) ==
    /\ pc \in {"system", "idle"}
    /\ result' = [op |-> "get_state", id |-> id, ret |-> get_state(states, id)]
    /\ UNCHANGED <<specification, states, is_built, agent, policy,
                   policy_evaluation, pc, ev, dpi, prev_policy, hist, calls>>

\* Agent::init_random
InitRandom ==
    /\ pc = "system"
    /\ is_built
    /\ agent' = TRUE
    /\ policy' = init_random_policy(states)
    /\ policy_evaluation' = init_random_evaluation(states)
    /\ pc' = "idle"
    /\ result' = NoResult
    /\ UNCHANGED <<specification, states, is_built, ev, dpi, prev_policy, hist,
                   calls>>

\* Agent::get_best_action
GetBestAction(id) ==
    /\ pc = "idle"
    /\ \E r \in get_best_action(policy, id) :
        /\ result' = [op |-> "get_best_action", id |-> id, ret |-> r]
        /\ pc' = IF r.kind = "panic" THEN "panicked" ELSE pc
    /\ UNCHANGED <<specification, states, is_built, agent, policy,
                   policy_evaluation, ev, dpi, prev_policy, hist, calls>>

\* entry of evaluate_policy, up to the loop: the locals of the call, or the
\* panic of get_state(id).unwrap() for a policy key that is not a state
EnterEval(gamma, epsilon, n_iter, ret) ==
    IF DOMAIN policy \subseteq DOMAIN states
    THEN /\ ev' = [gamma |-> gamma, epsilon |-> epsilon, n_iter |-> n_iter,
                   counter |-> 0, delta |-> Zero,
                   static_rewards |-> StaticRewards(policy, states),
                   state_probs |-> StateProbs(policy, states),
                   ret |-> ret]
         /\ pc' = "eval"
    ELSE /\ ev' = ev
         /\ pc' = "panicked"

\* the call repeats the caller's previous evaluate_policy call, which had
\* stopped because delta < epsilon, on the same policy
RepeatsConverged(gamma, epsilon) ==
    /\ ev.ret = "idle"
    /\ ev.counter >= 1
    /\ Lt(ev.delta, ev.epsilon)
    /\ ev.gamma = gamma
    /\ ev.epsilon = epsilon

\* an evaluate_policy that starts by drawing the uniform policy again
EvaluateCall_Redrawing(G, E, N, budget) ==
    /\ pc = "idle"
    /\ calls < budget
    /\ policy' = init_random_policy(states)
    /\ \E gamma \in G, epsilon \in E, n_iter \in N :
        /\ ev' = [gamma |-> gamma, epsilon |-> epsilon, n_iter |-> n_iter,
                  counter |-> 0, delta |-> Zero,
                  static_rewards |-> StaticRewards(policy', states),
                  state_probs |-> StateProbs(policy', states),
                  ret |-> "idle"]
        /\ pc' = "eval"
        /\ hist' = [start |-> policy_evaluation,
                    again |-> RepeatsConverged(gamma, epsilon)]
    /\ calls' = calls + 1
    /\ dpi' = NoDpi
    /\ result' = NoResult
    /\ UNCHANGED <<specification, states, is_built, agent, policy_evaluation,
                   prev_policy>>

\* a caller's evaluate_policy(gamma, epsilon, n_iter), with the arguments
\* drawn from G, E and N, while fewer than budget calls have been made
EvaluateCall(G, E, N, budget) ==
    /\ pc = "idle"
    /\ calls < budget
    /\ \E gamma \in G, epsilon \in E, n_iter \in N :
        /\ EnterEval(gamma, epsilon, n_iter, "idle")
        /\ hist' = [start |-> policy_evaluation,
                    again |-> RepeatsConverged(gamma, epsilon)]
    /\ calls' = calls + 1
    /\ dpi' = NoDpi
    /\ result' = NoResult
    /\ UNCHANGED <<specification, states, is_built, agent, policy,
                   policy_evaluation, prev_policy>>

EvaluatePolicy == EvaluateCall(Gammas, Epsilons, 0..MaxIters, MaxCalls)

\* the table is within the range where the rational arithmetic of the model
\* and the f64 arithmetic of the code agree
Representable(values) == \A id \in DOMAIN values : values[id][2] <= MaxDen

\* one pass of the loop of evaluate_policy: the sweep, counter += 1 and the
\* break test.  counter is a u32; the model explores at most MaxSweeps passes
\* of a call, and only tables with denominators up to MaxDen.
EvalSweep ==
    /\ pc = "eval"
    /\ ev.counter < MaxSweeps
    /\ Representable(policy_evaluation)
    /\ IF DOMAIN policy_evaluation \subseteq DOMAIN ev.state_probs
       THEN LET new == Sweep(policy_evaluation, ev.static_rewards,
                             ev.state_probs, ev.gamma)
                delta == Delta(new, policy_evaluation)
                counter == ev.counter + 1
            IN  /\ policy_evaluation' = new
                /\ ev' = [ev EXCEPT !.counter = counter, !.delta = delta]
                /\ pc' = IF Lt(delta, ev.epsilon) \/ counter = ev.n_iter
                         THEN ev.ret ELSE "eval"
       ELSE /\ pc' = "panicked"
            /\ UNCHANGED <<policy_evaluation, ev>>
    /\ UNCHANGED <<specification, states, is_built, agent, policy, dpi,
                   prev_policy, hist, result, calls>>

\* a caller's deterministic_policy_improvement, up to its first
\* evaluate_policy, with the arguments drawn from G, E, PI and EI
ImprovementCall(G, E, PI, EI, budget) ==
    /\ pc = "idle"
    /\ calls < budget
    /\ \E gamma \in G, epsilon \in E, policy_iters \in PI, eval_iters \in EI :
        /\ dpi' = [gamma |-> gamma, epsilon |-> epsilon,
                   policy_iters |-> policy_iters, eval_iters |-> eval_iters,
                   policy_counter |-> 0, old_eval |-> EmptyMap]
        /\ EnterEval(gamma, epsilon, eval_iters, "dpi_loop")
    /\ calls' = calls + 1
    /\ hist' = NoHist
    /\ result' = NoResult
    /\ UNCHANGED <<specification, states, is_built, agent, policy,
                   policy_evaluation, prev_policy>>

DeterministicPolicyImprovement ==
    ImprovementCall(Gammas, Epsilons, 0..MaxIters, 0..MaxIters, MaxCalls)

\* the policies the greedy step can assign: one best action per state
GreedyPolicies(sts, values) ==
    {[id \in DOMAIN sts |-> calc_best_policy(sts[id], best[id])] :
        best \in {f \in [DOMAIN sts -> {"a", "b", default_str}] :
                    \A id \in DOMAIN sts : f[id] \in calc_best_action(sts[id], values)}}

\* top of the loop of deterministic_policy_improvement: the snapshot, the
\* greedy policy and the call of evaluate_policy(gamma, epsilon, 100).
\* prev_policy is a history variable: the policy this step replaces.
DpiImprove ==
    /\ pc = "dpi_loop"
    /\ dpi.policy_counter < MaxOuter
    /\ \E new_policy \in GreedyPolicies(states, policy_evaluation) :
        /\ policy' = new_policy
        /\ prev_policy' = policy
        /\ dpi' = [dpi EXCEPT !.old_eval = policy_evaluation]
        /\ IF DOMAIN new_policy \subseteq DOMAIN states
           THEN /\ ev' = [gamma |-> dpi.gamma, epsilon |-> dpi.epsilon,
                          n_iter |-> InnerEvalCap, counter |-> 0, delta |-> Zero,
                          static_rewards |-> StaticRewards(new_policy, states),
                          state_probs |-> StateProbs(new_policy, states),
                          ret |-> "dpi_compare"]
                /\ pc' = "eval"
           ELSE /\ ev' = ev
                /\ pc' = "panicked"
    /\ UNCHANGED <<specification, states, is_built, agent, policy_evaluation,
                   hist, result, calls>>

\* max_diff of deterministic_policy_improvement; max_by(..).unwrap() panics
\* on an empty old_eval
RECURSIVE MaxDiff(_, _, _)
MaxDiff(old_eval, new_eval, S) ==
    LET id == CHOOSE x \in S : TRUE
        d == Abs(Sub(old_eval[id], new_eval[id]))
    IN  IF S = {id} THEN d ELSE Max(MaxDiff(old_eval, new_eval, S \ {id}), d)

\* bottom of the loop of deterministic_policy_improvement: max_diff,
\* policy_counter += 1 and the break test
DpiCompare ==
    /\ pc = "dpi_compare"
    /\ IF DOMAIN dpi.old_eval = {}
       THEN /\ pc' = "panicked"
            /\ dpi' = dpi
       ELSE LET max_diff == MaxDiff(dpi.old_eval, policy_evaluation, DOMAIN dpi.old_eval)
                policy_counter == dpi.policy_counter + 1
            IN  /\ dpi' = [dpi EXCEPT !.policy_counter = policy_counter]
                /\ pc' = IF Lt(max_diff, dpi.epsilon) \/ policy_counter = dpi.policy_iters
                         THEN "idle" ELSE "dpi_loop"
    /\ UNCHANGED <<specification, states, is_built, agent, policy,
                   policy_evaluation, ev, prev_policy, hist, result, calls>>

Next ==
    \/ Build
    \/ \E id \in QueryIds : GetState(id)
    \/ InitRandom
    \/ \E id \in QueryIds : GetBestAction(id)
    \/ EvaluatePolicy
    \/ EvalSweep
    \/ DeterministicPolicyImprovement
    \/ DpiImprove
    \/ DpiCompare

Spec == Init /\ [][Next]_vars

\* construction and queries only: build, init_random and the two lookups
NextBuild ==
    \/ Build
    \/ \E id \in QueryIds : GetState(id)
    \/ InitRandom
    \/ \E id \in QueryIds : GetBestAction(id)

SpecBuild == Init /\ [][NextBuild]_vars

\* construction and evaluate_policy only
NextEval ==
    \/ Build
    \/ InitRandom
    \/ EvaluatePolicy
    \/ EvalSweep

SpecEval == Init /\ [][NextEval]_vars

(***************************************************************************)
(* The models and calls of the crate's tests: arms, chains, a branch, a    *)
(* loop, and one model whose probabilities are not normalized              *)
(***************************************************************************)
MaxChain == 5

Three == <<3, 1>>

FiveQuarters == <<5, 4>>

\* a chain 0 -> 1 -> ... -> n of single actions with reward 1
Chain(n) == [i \in 1..n |-> <<i - 1, i, "a", One, One>>]

\* policy_eval_test_1, with two arms: rewards 1 and 3
Arms == << <<0, 1, "a", One, One>>, <<0, 1, "b", One, Three>> >>

\* policy_eval_test_2: two levels of arms
TwoLevel == << <<0, 1, "a", One, One>>, <<0, 1, "b", One, Three>>,
               <<1, 2, "a", One, Three>>, <<1, 2, "b", One, One>> >>

\* two arms of equal reward
TiedArms == << <<0, 1, "a", One, One>>, <<0, 1, "b", One, One>> >>

\* one action with two outcomes
Branch == << <<0, 1, "a", Half, Two>>, <<0, 2, "a", Half, Zero>>,
             <<2, 1, "a", One, Two>> >>

\* a state that stays with probability 1/2
Loop == << <<0, 0, "a", Half, One>>, <<0, 1, "a", Half, Zero>> >>

\* action a of state 0 has total probability 2
Surplus == << <<0, 0, "a", One, One>>, <<0, 1, "a", One, Zero>>,
              <<1, 1, "a", One, One>> >>

TestModels ==
    {Chain(n) : n \in 0..MaxChain} \cup {Arms, TwoLevel, TiedArms, Branch, Loop, Surplus}

TestIds == 0..(MaxChain + 1)

TestGammas == {Half, One}

TestEpsilons == {Quarter, FiveQuarters}

\* evaluate_policy(1., epsilon, 10) in the tests
EvalTestCap == 10

\* deterministic_policy_improvement(1., epsilon, 100, 100) in the tests
ImprovTestCap == 100

InitTests ==
    /\ specification \in TestModels
    /\ states = EmptyMap
    /\ is_built = FALSE
    /\ agent = FALSE
    /\ policy = EmptyMap
    /\ policy_evaluation = EmptyMap
    /\ pc = "system"
    /\ ev = NoEval
    /\ dpi = NoDpi
    /\ prev_policy = EmptyMap
    /\ hist = NoHist
    /\ result = NoResult
    /\ calls = 0

\* the policies the tests install: one action of probability 1 per state
DeterministicPolicies(sts) ==
    {[id \in DOMAIN sts |-> calc_best_policy(sts[id], chosen[id])] :
        chosen \in {f \in [DOMAIN sts -> {"a", "b", default_str}] :
                      \A id \in DOMAIN sts :
                          IF DOMAIN sts[id].eval_action_rewards = {}
                          THEN f[id] = default_str
                          ELSE f[id] \in DOMAIN sts[id].eval_action_rewards}}

\* Agent::set_polity
SetPolity ==
    /\ pc = "idle"
    /\ \E new_policy \in DeterministicPolicies(states) : policy' = new_policy
    /\ ev' = NoEval
    /\ dpi' = NoDpi
    /\ hist' = NoHist
    /\ result' = NoResult
    /\ UNCHANGED <<specification, states, is_built, agent, policy_evaluation,
                   pc, prev_policy, calls>>

TestEvaluate ==
    EvaluateCall(TestGammas, TestEpsilons, {1, EvalTestCap}, MaxCalls + 1)

TestImprove ==
    ImprovementCall(TestGammas, TestEpsilons, {ImprovTestCap}, {ImprovTestCap},
                    MaxCalls + 1)

\* the tests of evaluate_policy: init_random, set_polity, evaluate_policy
NextTestEval ==
    \/ Build
    \/ InitRandom
    \/ SetPolity
    \/ TestEvaluate
    \/ EvalSweep

SpecTestEval == InitTests /\ [][NextTestEval]_vars

\* the agent without set_polity: init_random, then any calls
NextTests ==
    \/ Build
    \/ InitRandom
    \/ \E id \in TestIds : GetBestAction(id)
    \/ TestEvaluate
    \/ EvalSweep
    \/ TestImprove
    \/ DpiImprove
    \/ DpiCompare

SpecTests == InitTests /\ [][NextTests]_vars


TypeOK ==
    /\ pc \in {"system", "idle", "eval", "dpi_loop", "dpi_compare", "panicked"}
    /\ calls \in 0..(MaxCalls + 1)
    /\ hist.again \in BOOLEAN
    /\ is_built \in BOOLEAN
    /\ agent \in BOOLEAN

(***************************************************************************)
(* The specification sequence, read directly                               *)
(***************************************************************************)
LinkIdx == 1..Len(specification)

SpecIds == {specification[i][1] : i \in LinkIdx} \cup {specification[i][2] : i \in LinkIdx}

LinksFrom(s) == {i \in LinkIdx : specification[i][1] = s}

SpecActions(s) == {specification[i][3] : i \in LinksFrom(s)}

SpecDests(s, a) == {specification[i][2] : i \in {j \in LinksFrom(s) : specification[j][3] = a}}

SpecPairs(s) == {<<specification[i][3], specification[i][2]>> : i \in LinksFrom(s)}

SameEdge(i, j) ==
    /\ specification[i][1] = specification[j][1]
    /\ specification[i][2] = specification[j][2]
    /\ specification[i][3] = specification[j][3]

\* the last spec of the sequence with the given (from, action, to)
LastLink(s, a, d) ==
    specification[CHOOSE i \in LinkIdx :
        /\ specification[i][1] = s /\ specification[i][3] = a /\ specification[i][2] = d
        /\ \A j \in LinkIdx : SameEdge(i, j) => j <= i]

TablePairs(tbl) == UNION {{<<a, d>> : d \in DOMAIN tbl[a]} : a \in DOMAIN tbl}

BuiltShape ==
    /\ DOMAIN states = SpecIds
    /\ \A s \in DOMAIN states :
        /\ DOMAIN states[s].transition_probs = SpecActions(s)
        /\ DOMAIN states[s].action_rewards = SpecActions(s)
        /\ TablePairs(states[s].transition_probs) = SpecPairs(s)
        /\ TablePairs(states[s].action_rewards) = SpecPairs(s)

\* C7 as stated: after build the states are exactly the ids occurring as
\* from or to, each state's outcome and reward tables hold exactly the
\* (action, destination) pairs of the specs from that state, and every spec's
\* probability and reward is the value held for its pair.
C7_BuildHoldsEverySpec ==
    is_built =>
        /\ BuiltShape
        /\ \A i \in LinkIdx :
            LET l == specification[i]
            IN  /\ states[l[1]].transition_probs[l[3]][l[2]] = l[4]
                /\ states[l[1]].action_rewards[l[3]][l[2]] = l[5]

\* C7 amended: as above, but the value held for a pair is the probability
\* and reward of the last spec of the sequence with that (from, action, to).
C7_BuildHoldsLastSpec ==
    is_built =>
        /\ BuiltShape
        /\ \A s \in DOMAIN states : \A pr \in SpecPairs(s) :
            /\ states[s].transition_probs[pr[1]][pr[2]] = LastLink(s, pr[1], pr[2])[4]
            /\ states[s].action_rewards[pr[1]][pr[2]] = LastLink(s, pr[1], pr[2])[5]

C7_Witness ==
    /\ is_built
    /\ \E i, j \in LinkIdx :
        i < j /\ SameEdge(i, j) /\ specification[i][4] # specification[j][4]
    /\ \E s \in DOMAIN states : LinksFrom(s) = {}

\* C8: after build, the transposed table of every state has an entry exactly
\* for the destinations some action reaches, and each entry maps every action
\* of the state to the edge probability, or to 0 when the action has no edge
\* to that destination.
C8_TransposeZeroFilled ==
    is_built =>
        \A s \in DOMAIN states :
            LET st == states[s]
            IN  /\ DOMAIN st.eval_transition_probs =
                       {d \in SpecIds : \E a \in DOMAIN st.transition_probs :
                                            d \in DOMAIN st.transition_probs[a]}
                /\ \A d \in DOMAIN st.eval_transition_probs :
                    /\ DOMAIN st.eval_transition_probs[d] = DOMAIN st.transition_probs
                    /\ \A a \in DOMAIN st.transition_probs :
                        st.eval_transition_probs[d][a] =
                            IF d \in DOMAIN st.transition_probs[a]
                            THEN st.transition_probs[a][d] ELSE Zero

C8_Witness ==
    /\ is_built
    /\ \E s \in DOMAIN states : \E a, b \in DOMAIN states[s].transition_probs :
        \E d \in DOMAIN states[s].transition_probs[a] :
            /\ a # b
            /\ d \notin DOMAIN states[s].transition_probs[b]
            /\ states[s].eval_transition_probs[d][b] = Zero

\* the expected reward of action a in state s, summed over the specs
ExpectedFromSpec(s, a) ==
    Sum([d \in SpecDests(s, a) |-> Mul(LastLink(s, a, d)[4], LastLink(s, a, d)[5])])

\* C9: after build, the expected-reward table of every state has exactly the
\* state's actions as keys and holds, for each, the sum over the action's
\* destinations of probability * reward; it is empty for a state without
\* actions.
C9_ExpectedActionReward ==
    is_built =>
        \A s \in DOMAIN states :
            /\ DOMAIN states[s].eval_action_rewards = SpecActions(s)
            /\ \A a \in SpecActions(s) :
                states[s].eval_action_rewards[a] = ExpectedFromSpec(s, a)

C9_Witness ==
    /\ is_built
    /\ \E s \in DOMAIN states : \E a \in DOMAIN states[s].eval_action_rewards :
        /\ Cardinality(SpecDests(s, a)) = 2
        /\ states[s].eval_action_rewards[a] = <<5, 2>>
    /\ \E s \in DOMAIN states : states[s].eval_action_rewards = EmptyMap

\* C10: right after init_random every state with k >= 1 actions has the
\* policy giving 1/k to each of its k actions, every state without actions
\* has the empty policy, and the value table holds 0 for every state.
C10_InitRandomUniform ==
    (agent /\ calls = 0) =>
        /\ DOMAIN policy = SpecIds
        /\ DOMAIN policy_evaluation = SpecIds
        /\ \A s \in SpecIds :
            /\ DOMAIN policy[s] = SpecActions(s)
            /\ \A a \in SpecActions(s) : policy[s][a] = <<1, Cardinality(SpecActions(s))>>
            /\ policy_evaluation[s] = Zero

C10_Witness ==
    /\ agent
    /\ calls = 0
    /\ \E s \in SpecIds : Cardinality(DOMAIN policy[s]) = 2 /\ policy[s]["a"] = Half
    /\ \E s \in SpecIds : policy[s] = EmptyMap

(***************************************************************************)
(* The Bellman quantities of the claims, from the edge tables              *)
(***************************************************************************)
\* P(s' | s, a)
Prob(s, a, d) ==
    IF d \in DOMAIN states[s].transition_probs[a]
    THEN states[s].transition_probs[a][d] ELSE Zero

\* expectedActionReward[s][a] + gamma * SUM_s' P(s' | s, a) * values[s']
QValue(s, a, values, gamma) ==
    Add(states[s].eval_action_rewards[a],
        Mul(gamma, Sum([d \in DOMAIN values |-> Mul(Prob(s, a, d), values[d])])))

\* staticReward[s] + gamma * SUM_s' transitionUnderPolicy[s][s'] * values[s']
Bellman(s, pol, values, gamma) ==
    LET staticReward ==
            Sum([a \in DOMAIN pol[s] |->
                    Mul(pol[s][a], states[s].eval_action_rewards[a])])
        transitionUnderPolicy(d) ==
            Sum([a \in DOMAIN pol[s] |-> Mul(pol[s][a], Prob(s, a, d))])
    IN  Add(staticReward,
            Mul(gamma, Sum([d \in DOMAIN values |->
                              Mul(transitionUnderPolicy(d), values[d])])))

\* values is the exact fixed point of evaluation under pol
Exact(pol, values, gamma) ==
    /\ DOMAIN pol = DOMAIN values
    /\ \A s \in DOMAIN values : values[s] = Bellman(s, pol, values, gamma)

\* C1: the greedy step of deterministic_policy_improvement gives every state
\* with at least one action an action maximizing expectedActionReward[s][a] +
\* gamma * SUM_s' P(s' | s, a) * value[s'] over the current value table, for
\* the gamma of the call.
C1_GreedyMaximizesDiscounted ==
    [][(pc = "dpi_loop" /\ pc' = "eval") =>
        \A s \in DOMAIN states :
            DOMAIN states[s].transition_probs # {} =>
                \E a \in DOMAIN policy'[s] :
                    /\ policy'[s][a] = One
                    /\ \A b \in DOMAIN states[s].transition_probs :
                        Le(QValue(s, b, policy_evaluation, dpi.gamma),
                           QValue(s, a, policy_evaluation, dpi.gamma))]_vars

\* C2: a call of evaluate_policy(gamma, epsilon, n) never performs more than
\* n sweeps, for every n including 0.
C2_SweepsWithinCap == ev.counter <= ev.n_iter

\* C3: a call of deterministic_policy_improvement never performs more than
\* outerIterations outer steps, for every outerIterations including 0: the
\* count of finished steps stays within the cap and no step starts beyond it.
C3_OuterStepsWithinCap ==
    /\ dpi.policy_counter <= dpi.policy_iters
    /\ pc = "dpi_loop" => dpi.policy_counter < dpi.policy_iters

\* C4: a query for an id that is not a state of the model returns an absent
\* result on both query surfaces, get_state and get_best_action, and never
\* crashes.
C4_AbsentLookupNeverCrashes ==
    (result.op \in {"get_state", "get_best_action"} /\ result.id \notin DOMAIN states)
        => result.ret.kind = "None"

\* C5: every sweep of evaluate_policy is synchronous: each state's new value
\* is staticReward[s] + gamma * SUM_s' transitionUnderPolicy[s][s'] *
\* oldValue[s'] with oldValue the whole table as it was when the sweep began.
C5_SweepIsJacobi ==
    [][(pc = "eval" /\ ev'.counter = ev.counter + 1) =>
        /\ DOMAIN policy_evaluation' = DOMAIN states
        /\ \A s \in DOMAIN states :
            policy_evaluation'[s] = Bellman(s, policy, policy_evaluation, ev.gamma)]_vars

C5_Witness ==
    /\ pc = "eval"
    /\ ev.counter >= 2
    /\ ev.gamma # Zero
    /\ \E s, d \in DOMAIN states :
        /\ s < d
        /\ d \in DOMAIN ev.state_probs[s]
        /\ ev.state_probs[s][d] # Zero
        /\ policy_evaluation[d] # Zero
        /\ policy_evaluation[s] # ev.static_rewards[s]

\* C6: an outer step of deterministic_policy_improvement whose evaluations are
\* exact (the value table is the fixed point of the policy before the step,
\* and of the new policy after it) does not decrease the value of any state,
\* for every gamma.
C6_OuterStepMonotone ==
    (/\ pc = "dpi_compare"
     /\ Exact(prev_policy, dpi.old_eval, dpi.gamma)
     /\ Exact(policy, policy_evaluation, dpi.gamma))
        => \A s \in DOMAIN states : Le(dpi.old_eval[s], policy_evaluation[s])

(***************************************************************************)
(* Claims about the agent after its calls                                  *)
(***************************************************************************)
\* deterministic_policy_improvement has returned to the caller
DpiReturned == pc = "idle" /\ ev.ret = "dpi_compare"

\* C11: when deterministic_policy_improvement returns, the policy of every
\* state with at least one action gives probability 1 to exactly one of the
\* state's actions and 0 to each other one, over exactly the state's actions,
\* and the policy of a state without actions is the empty mapping
C11_ReturnedPolicyDeterministic ==
    DpiReturned =>
        /\ DOMAIN policy = SpecIds
        /\ \A id \in SpecIds :
            /\ DOMAIN policy[id] = SpecActions(id)
            /\ SpecActions(id) = {} => policy[id] = EmptyMap
            /\ SpecActions(id) # {} =>
                /\ \E a \in SpecActions(id) :
                    /\ policy[id][a] = One
                    /\ \A b \in SpecActions(id) \ {a} : policy[id][b] = Zero
                /\ Sum(policy[id]) = One

\* the call has returned after a greedy step in which two actions tied
C11_Witness ==
    /\ DpiReturned
    /\ \E id \in SpecIds : \E a, b \in SpecActions(id) :
        /\ a # b
        /\ ActionScore(states[id], dpi.old_eval, a) = ActionScore(states[id], dpi.old_eval, b)
        /\ policy[id][a] = One
    /\ \E id \in SpecIds : SpecActions(id) = {}

\* the last operation was get_best_action on a state of the model
BestActionAnswered ==
    /\ result.op = "get_best_action"
    /\ result.id \in SpecIds

\* C12: for every state of the model, get_best_action returns none exactly
\* when the state's policy mapping is empty; after init_random and any calls
\* of evaluate_policy and deterministic_policy_improvement, a state that is
\* only a destination has an empty policy and gets none, and a state with at
\* least one action gets some action of that state
C12_BestActionNoneIffEmpty ==
    BestActionAnswered =>
        /\ result.ret.kind \in {"None", "Some"}
        /\ result.ret.kind = "None" <=> policy[result.id] = EmptyMap
        /\ SpecActions(result.id) = {} =>
            policy[result.id] = EmptyMap /\ result.ret.kind = "None"
        /\ SpecActions(result.id) # {} =>
            result.ret.kind = "Some" /\ result.ret.action \in SpecActions(result.id)

\* after deterministic_policy_improvement has returned, a state that is only
\* a destination gets none while another state has two actions to choose from
C12_Witness ==
    /\ BestActionAnswered
    /\ DpiReturned
    /\ result.ret.kind = "None"
    /\ \E id \in SpecIds : Cardinality(SpecActions(id)) = 2

(***************************************************************************)
(* Exact returns on acyclic models, computed from the outcome tables       *)
(***************************************************************************)
Actions(s) == DOMAIN states[s].transition_probs

Succs(s) == UNION {DOMAIN states[s].transition_probs[a] : a \in Actions(s)}

RECURSIVE ReachableFrom(_)
ReachableFrom(S) ==
    LET more == S \cup UNION {Succs(s) : s \in S}
    IN  IF more = S THEN S ELSE ReachableFrom(more)

Acyclic == \A s \in DOMAIN states : s \notin ReachableFrom(Succs(s))

\* for each state and action the probabilities of the outcomes sum to 1
NormalizedModel ==
    \A s \in DOMAIN states : \A a \in Actions(s) :
        Sum(states[s].transition_probs[a]) = One

SetMax(S) == CHOOSE x \in S : \A y \in S : y <= x

\* number of links on the longest path from s
RECURSIVE Height(_)
Height(s) == IF Succs(s) = {} THEN 0 ELSE 1 + SetMax({Height(d) : d \in Succs(s)})

LongestPath == SetMax({0} \cup {Height(s) : s \in DOMAIN states})

\* SUM_a pol[s][a] * SUM_s' P(s' | s, a) * (reward(s, a, s') + below[s'])
ReturnOver(s, pol, below) ==
    Sum([a \in DOMAIN pol[s] |->
            Mul(pol[s][a],
                Sum([d \in DOMAIN states[s].transition_probs[a] |->
                        Mul(states[s].transition_probs[a][d],
                            Add(states[s].action_rewards[a][d], below[d]))]))])

\* the exact returns, from a table that is exact for the states of low
\* height: at most k more levels are needed
RECURSIVE ExactFrom(_, _, _)
ExactFrom(pol, below, k) ==
    LET next == [s \in DOMAIN states |-> ReturnOver(s, pol, below)] @@ EmptyMap
    IN  IF next = below \/ k = 0 THEN below ELSE ExactFrom(pol, next, k - 1)

\* exactValue[s] on an acyclic model
ExactValue(s, pol) ==
    ExactFrom(pol, [id \in DOMAIN states |-> Zero], LongestPath + 1)[s]

\* the caller's evaluate_policy has returned
EvalReturned == pc = "idle" /\ ev.ret = "idle" /\ ev.counter >= 1

\* evaluate_policy with gamma = 1 and a cap above the longest path has
\* returned on an acyclic model with normalized probabilities
AcyclicEvalReturned ==
    /\ EvalReturned
    /\ ev.gamma = One
    /\ Acyclic
    /\ NormalizedModel
    /\ ev.n_iter > LongestPath

ErrorOf(s) == Abs(Sub(policy_evaluation[s], ExactValue(s, policy)))

\* C13 as stated: on an acyclic model with normalized probabilities,
\* evaluate_policy with gamma = 1 and a sweep cap larger than the longest
\* path leaves every state's value within 2 * epsilon of its exact expected
\* return under the policy
C13_WithinTwoEpsilon ==
    AcyclicEvalReturned =>
        \A s \in DOMAIN states : Lt(ErrorOf(s), Mul(Two, ev.epsilon))

\* C13, amended: the value is within L * epsilon of the exact expected
\* return, L being the number of links on the longest path (1 if there is
\* no link)
C13_WithinPathEpsilon ==
    AcyclicEvalReturned =>
        \A s \in DOMAIN states :
            Lt(ErrorOf(s), Mul(<<SetMax({1, LongestPath}), 1>>, ev.epsilon))

\* the two-level chain of the tests under the uniform policy: 4 and 2
C13_Witness ==
    /\ AcyclicEvalReturned
    /\ specification = TwoLevel
    /\ policy = init_random_policy(states)
    /\ policy_evaluation[0] = <<4, 1>>
    /\ policy_evaluation[1] = Two
    /\ policy_evaluation[2] = Zero

(***************************************************************************)
(* Optimal returns on acyclic models with gamma = 1                        *)
(***************************************************************************)
\* every action of every state has one outcome, of probability 1
DeterministicModel ==
    \A s \in DOMAIN states : \A a \in Actions(s) :
        \E d \in DOMAIN states :
            states[s].transition_probs[a] = MapInsert(EmptyMap, d, One)

\* SUM_s' P(s' | s, a) * (reward(s, a, s') + below[s'])
ActionReturn(s, a, below) ==
    Sum([d \in DOMAIN states[s].transition_probs[a] |->
            Mul(states[s].transition_probs[a][d],
                Add(states[s].action_rewards[a][d], below[d]))])

RECURSIVE MaxOf(_)
MaxOf(S) ==
    LET x == CHOOSE y \in S : TRUE
    IN  IF S = {x} THEN x ELSE Max(MaxOf(S \ {x}), x)

BestReturn(s, below) ==
    IF Actions(s) = {} THEN Zero
    ELSE MaxOf({ActionReturn(s, a, below) : a \in Actions(s)})

\* the optimal returns, from a table that is optimal for the states of low
\* height: at most k more levels are needed
RECURSIVE OptimalFrom(_, _)
OptimalFrom(below, k) ==
    LET next == [s \in DOMAIN states |-> BestReturn(s, below)] @@ EmptyMap
    IN  IF next = below \/ k = 0 THEN below ELSE OptimalFrom(next, k - 1)

Optimum == OptimalFrom([id \in DOMAIN states |-> Zero], LongestPath + 1)

\* every state with an action selects one that maximizes reward plus the
\* optimal value of the successor
PolicyOptimal ==
    \A s \in DOMAIN states :
        Actions(s) # {} =>
            \E a \in Actions(s) :
                /\ policy[s][a] = One
                /\ ActionReturn(s, a, Optimum) = Optimum[s]

\* deterministic_policy_improvement(1., epsilon, 100, 100), called right
\* after init_random on an acyclic deterministic model, has returned
TestImprovementReturned ==
    /\ DpiReturned
    /\ calls = 1
    /\ dpi.gamma = One
    /\ dpi.policy_iters = ImprovTestCap
    /\ dpi.eval_iters = ImprovTestCap
    /\ Acyclic
    /\ DeterministicModel

\* the last sweep changed no value and the last comparison found no difference
StoppedOnNoChange ==
    /\ ev.delta = Zero
    /\ dpi.old_eval = policy_evaluation

\* C14 as stated: from init_random, deterministic_policy_improvement(1,
\* epsilon, 100, 100) on an acyclic deterministic model ends with every
\* state's policy selecting an optimal action and every value within
\* 2 * epsilon of the optimum
C14_ReachesOptimum ==
    TestImprovementReturned =>
        /\ PolicyOptimal
        /\ \A s \in DOMAIN states :
            Lt(Abs(Sub(policy_evaluation[s], Optimum[s])), Mul(Two, ev.epsilon))

\* C14, amended: the same when the call stopped on no change at all, and
\* then the values are the optimum
C14_ReachesOptimumOnNoChange ==
    (TestImprovementReturned /\ StoppedOnNoChange) =>
        /\ PolicyOptimal
        /\ policy_evaluation = Optimum

\* the chain of the tests: value(0) = 6 and value(1) = 3
C14_Witness ==
    /\ TestImprovementReturned
    /\ StoppedOnNoChange
    /\ specification = TwoLevel
    /\ policy_evaluation[0] = <<6, 1>>
    /\ policy_evaluation[1] = Three
    /\ policy[0]["b"] = One
    /\ policy[1]["a"] = One

(***************************************************************************)
(* Repeating evaluate_policy                                               *)
(***************************************************************************)
\* the caller's evaluate_policy has returned from a call that repeats, with
\* the same gamma, epsilon and policy, a call stopped by delta < epsilon
RepeatReturned == EvalReturned /\ hist.again

ChangedBelowEpsilon ==
    \A id \in DOMAIN policy_evaluation :
        Lt(Abs(Sub(policy_evaluation[id], hist.start[id])), ev.epsilon)

\* for each state and action the probabilities of the outcomes sum to at
\* most 1, and so do the probabilities of each state's policy
SubNormalized ==
    /\ \A s \in DOMAIN states : \A a \in Actions(s) :
        Le(Sum(states[s].transition_probs[a]), One)
    /\ \A s \in DOMAIN policy : Le(Sum(policy[s]), One)

\* C15 as stated: if a call of evaluate_policy stopped because the maximum
\* change fell below epsilon, calling it again with the same gamma, epsilon
\* and policy changes every entry of the value table by less than epsilon
C15_RepeatChangesBelowEpsilon == RepeatReturned => ChangedBelowEpsilon

\* C15, amended: the same on a model whose probabilities sum to at most 1
\* for each state and action, with gamma in [0, 1]
C15_RepeatChangesBelowEpsilonNormalized ==
    (RepeatReturned /\ SubNormalized /\ Le(Zero, ev.gamma) /\ Le(ev.gamma, One))
        => ChangedBelowEpsilon

\* the repeated call changed a value, by less than epsilon
C15_Witness ==
    /\ RepeatReturned
    /\ SubNormalized
    /\ policy_evaluation # hist.start
    /\ ChangedBelowEpsilon

(***************************************************************************)
(* The order of the specification sequence                                 *)
(***************************************************************************)
Orders(n) ==
    {f \in [1..n -> 1..n] : \A i, j \in 1..n : i # j => f[i] # f[j]}

Reordered(f) == [i \in LinkIdx |-> specification[f[i]]]

\* build gives the same states for every order of the sequence
SameBuildInEveryOrder ==
    \A f \in Orders(Len(specification)) :
        build(EmptyMap, Reordered(f)) = states

\* specs with the same (from, action, to) have the same probability and reward
NoConflictingSpecs ==
    \A i, j \in LinkIdx : SameEdge(i, j) => specification[i] = specification[j]

\* C16 as stated: for any spec sequence and any permutation of it, build
\* yields the same states with the same outcome, reward, expected-reward and
\* transposed tables
C16_BuildOrderIndependent == is_built => SameBuildInEveryOrder

\* C16, amended: the same for a sequence in which specs with the same
\* (from, action, to) carry the same probability and reward
C16_BuildOrderIndependentNoConflict ==
    (is_built /\ NoConflictingSpecs) => SameBuildInEveryOrder

\* two different outcomes of one action of one state have been built
C16_Witness ==
    /\ is_built
    /\ NoConflictingSpecs
    /\ Len(specification) = MaxLinks
    /\ specification[1] # specification[2]
    /\ specification[1][1] = specification[2][1]
    /\ specification[1][3] = specification[2][3]
    /\ build(EmptyMap, specification) = states

(***************************************************************************)
(* What the calls leave alone                                              *)
(***************************************************************************)
ModelUnchanged ==
    /\ states' = states
    /\ specification' = specification
    /\ is_built' = is_built

\* a step of a caller's evaluate_policy: its entry or one pass of its loop
EvaluateStep ==
    \/ pc = "idle" /\ calls' = calls + 1 /\ dpi' = NoDpi
    \/ pc = "eval" /\ ev.ret = "idle"

\* a step of deterministic_policy_improvement, its evaluations included
ImprovementStep ==
    \/ pc = "idle" /\ calls' = calls + 1 /\ dpi' # NoDpi
    \/ pc = "eval" /\ ev.ret \in {"dpi_loop", "dpi_compare"}
    \/ pc \in {"dpi_loop", "dpi_compare"}

\* a call of get_best_action
BestActionStep == pc = "idle" /\ result'.op = "get_best_action"

\* C17: evaluate_policy changes only the value table, leaving the policy and
\* the system model as they were; deterministic_policy_improvement and
\* get_best_action never change the system model, and get_best_action
\* changes neither the policy nor the value table
C17_Frame ==
    [][/\ EvaluateStep => policy' = policy /\ ModelUnchanged
       /\ ImprovementStep => ModelUnchanged
       /\ BestActionStep =>
            /\ ModelUnchanged
            /\ policy' = policy
            /\ policy_evaluation' = policy_evaluation]_vars

\* after deterministic_policy_improvement changed the policy, evaluate_policy
\* changed the value table and get_best_action answered
C17_Witness ==
    /\ EvalReturned
    /\ prev_policy # EmptyMap
    /\ policy # init_random_policy(states)
    /\ policy_evaluation # hist.start
    /\ result.op = "get_best_action"

(***************************************************************************)
(* Calls on the empty model                                                *)
(***************************************************************************)
\* deterministic_policy_improvement has panicked
ImprovementPanicked ==
    /\ pc = "panicked"
    /\ dpi # NoDpi
    /\ result.op # "get_best_action"

\* C18: deterministic_policy_improvement returns normally on every built
\* system model, the model built from an empty spec sequence included
C18_ImprovementReturnsNormally == ~ImprovementPanicked

(***************************************************************************)
(* The key sets of the agent's tables                                      *)
(***************************************************************************)
\* no lookup of evaluate_policy or deterministic_policy_improvement has
\* missed its key; the unwrap of max_by on the model without states is not
\* a lookup
NoLookupPanic == pc = "panicked" => result.op = "get_best_action" \/ SpecIds = {}

\* C19: after init_random and any calls of evaluate_policy and
\* deterministic_policy_improvement, the key set of the policy and the key
\* set of the value table are the state set, so that every per-state lookup
\* of evaluate_policy finds its key, and the value of every state with no
\* actions is 0
C19_TablesKeyedByStates ==
    agent =>
        /\ DOMAIN policy = SpecIds
        /\ DOMAIN policy_evaluation = SpecIds
        /\ DOMAIN states = SpecIds
        /\ NoLookupPanic
        /\ \A s \in SpecIds : SpecActions(s) = {} => policy_evaluation[s] = Zero

\* two calls have returned, a state has no action and a value is not 0
C19_Witness ==
    /\ agent
    /\ pc = "idle"
    /\ calls = 2
    /\ prev_policy # EmptyMap
    /\ \E s \in SpecIds : SpecActions(s) = {}
    /\ \E s \in SpecIds : policy_evaluation[s] # Zero

====
